---------------------------- MODULE Spec2Model ----------------------------
(* Model of zerver/forms.py: subdomain validation, registration field      *)
(* validation, the eligibility check of an email that wants to join a      *)
(* realm (HomepageForm.clean_email), the login form's decision             *)
(* (OurAuthenticationForm.clean) and the password-reset dispatch           *)
(* (ZulipPasswordResetForm.save).                                          *)
(* Strings whose characters matter (subdomains, email addresses) are       *)
(* sequences of one-character strings; opaque strings are TLA+ strings.    *)
EXTENDS Integers, Sequences, FiniteSets, TLC

VARIABLES
    now,              \* the clock, in ticks
    store,            \* rate-limit store: key -> timestamps of recorded attempts
    calls,            \* history of the rate-limiter consultations made so far
    RATE_LIMITING,    \* settings.RATE_LIMITING
    subdomain_check,  \* the last check_subdomain_available call and its result
    registration,     \* the last RegistrationForm validation and its result
    login,            \* the last OurAuthenticationForm.clean call and its result
    reset,            \* the last ZulipPasswordResetForm.save call and its effects
    homepage          \* the last HomepageForm.clean_email call and its result

vars == <<now, store, calls, RATE_LIMITING, subdomain_check, registration, login, reset, homepage>>

\* Python's Optional: None is the empty tuple, a present value x is <<x>>
None == <<>>

Some(x) == <<x>>

-----------------------------------------------------------------------------
(* Bounds of the model *)

\* longest subdomain tried
MaxSubLen == 3
\* last tick of the clock
MaxTime == 1
\* rate-limiter consultations in one run
MaxCalls == 3
\* attempts a rate-limit rule allows per window
RuleMax == 2
\* length of a rate-limit rule's window, in ticks
RuleWindow == 1
\* clock ticks in one second (secs_to_freedom is a float number of seconds)
TicksPerSecond == 2

-----------------------------------------------------------------------------
(* Character strings *)

RECURSIVE StringsOfLen(_, _)
StringsOfLen(chars, n) ==
    IF n = 0 THEN {<<>>}
    ELSE {Append(s, c) : s \in StringsOfLen(chars, n - 1), c \in chars}

StringsUpTo(chars, n) == UNION {StringsOfLen(chars, k) : k \in 0..n}

\* str.lower() on one character of the alphabets used here
LowerChar(c) ==
    CASE c = "B" -> "b"
      [] c = "O" -> "o"
      [] c = "E" -> "e"
      [] OTHER -> c

Lower(s) == [i \in 1..Len(s) |-> LowerChar(s[i])]

\* Django's __iexact lookup
IExact(a, b) == Lower(a) = Lower(b)

-----------------------------------------------------------------------------
(* check_subdomain_available *)

\* characters a submitted subdomain is built from: a lowercase letter, a dash,
\* a character outside [a-z0-9-], and a newline
SubdomainChars == {"a", "-", "_", "\n"}

Subdomains == StringsUpTo(SubdomainChars, MaxSubLen)

SUBDOMAIN_FOR_ROOT_DOMAIN == <<>>

InClass(c) == c \in {"a", "-"}

\* re.match("^[a-z0-9-]*$", subdomain): "$" also matches just before a
\* newline that ends the string
ReMatch(s) ==
    \/ \A i \in 1..Len(s) : InClass(s[i])
    \/ /\ Len(s) >= 1
       /\ s[Len(s)] = "\n"
       /\ \A i \in 1..(Len(s) - 1) : InClass(s[i])

\* a plausible slip: the existence and reserved-word lookups moved ahead of the
\* length check
check_subdomain_available_lookup_first(subdomain, allow_reserved_subdomain, root_available, exists, reserved) ==
    IF subdomain = SUBDOMAIN_FOR_ROOT_DOMAIN
    THEN IF root_available THEN "ok" ELSE "unavailable"
    ELSE IF subdomain[1] = "-" \/ subdomain[Len(subdomain)] = "-" THEN "extremal dash"
    ELSE IF ~ReMatch(subdomain) THEN "bad character"
    ELSE IF exists THEN "unavailable"
    ELSE IF reserved /\ ~allow_reserved_subdomain THEN "unavailable"
    ELSE IF Len(subdomain) < 3 THEN "too short"
    ELSE "ok"

\* The result is "ok" for a normal return and the key of error_strings for a
\* ValidationError. root_available, exists and reserved are the answers of
\* is_root_domain_available(), Realm.objects.filter(...).exists() and
\* is_reserved_subdomain(subdomain).
check_subdomain_available(subdomain, allow_reserved_subdomain, root_available, exists, reserved) ==
    IF subdomain = SUBDOMAIN_FOR_ROOT_DOMAIN
    THEN IF root_available THEN "ok" ELSE "unavailable"
    ELSE IF subdomain[1] = "-" \/ subdomain[Len(subdomain)] = "-" THEN "extremal dash"
    ELSE IF ~ReMatch(subdomain) THEN "bad character"
    ELSE IF Len(subdomain) < 3 THEN "too short"
    ELSE IF exists THEN "unavailable"
    ELSE IF reserved /\ ~allow_reserved_subdomain THEN "unavailable"
    ELSE "ok"

NoSubdomainCheck == [called |-> FALSE]

\* one call of check_subdomain_available, on inputs and lookup answers of any
\* kind; a behaviour follows one validation request
CheckSubdomain ==
    /\ ~subdomain_check.called /\ ~registration.called
    /\ \E s \in Subdomains, allow \in BOOLEAN, root \in BOOLEAN,
          ex \in BOOLEAN, res \in BOOLEAN :
        /\ subdomain_check' =
               [called |-> TRUE, subdomain |-> s, allow_reserved_subdomain |-> allow,
                root_available |-> root, exists |-> ex, reserved |-> res,
                result |-> check_subdomain_available(s, allow, root, ex, res)]
        /\ UNCHANGED <<now, store, calls, RATE_LIMITING, registration, login, reset, homepage>>

-----------------------------------------------------------------------------
(* RegistrationForm *)

Passwords == {"", "pw", "P@ssw0rd1", "Xk9#mQ2v"}

\* the passwords the strength oracle accepts
StrongPasswords == {"P@ssw0rd1", "Xk9#mQ2v"}

check_password_strength(password) == password \in StrongPasswords

\* a plausible slip: the strength check no longer consults the oracle
clean_password_unchecked(password, required) == "ok"

\* RegistrationForm.clean_password; "ok" stands for returning the password
clean_password(password, required) ==
    IF required /\ ~check_password_strength(password)
    THEN "PASSWORD_TOO_WEAK_ERROR"
    ELSE "ok"

\* Django's handling of the password field: an empty value of a required field
\* is rejected by the field and clean_password is not called
password_field(password, required) ==
    IF required /\ password = "" THEN "required"
    ELSE clean_password(password, required)

\* RegistrationForm.clean_realm_subdomain; the value is <<result, subdomain returned>>
clean_realm_subdomain(realm_creation, realm_subdomain, realm_in_root_domain, root_available, exists, reserved) ==
    IF ~realm_creation THEN <<"ok", <<>>>>
    ELSE LET subdomain == IF realm_in_root_domain THEN SUBDOMAIN_FOR_ROOT_DOMAIN
                          ELSE realm_subdomain
         IN  <<check_subdomain_available(subdomain, FALSE, root_available, exists, reserved),
               subdomain>>

\* RegistrationForm.clean_full_name; name_ok is check_full_name's answer
clean_full_name(name_ok) == IF name_ok THEN "ok" ELSE "JsonableError.msg"

NoRegistration == [called |-> FALSE]

\* the validation of one RegistrationForm instance (a form is validated once)
Register ==
    /\ ~subdomain_check.called /\ ~registration.called
    /\ \E pw \in Passwords, required \in BOOLEAN, realm_creation \in BOOLEAN,
          s \in Subdomains, in_root \in BOOLEAN, root \in BOOLEAN,
          ex \in BOOLEAN, res \in BOOLEAN, name_ok \in BOOLEAN :
        LET sub == clean_realm_subdomain(realm_creation, s, in_root, root, ex, res)
        IN  /\ registration' =
                   [called |-> TRUE, password |-> pw, password_required |-> required,
                    realm_creation |-> realm_creation, realm_subdomain |-> s,
                    realm_in_root_domain |-> in_root,
                    full_name_error |-> clean_full_name(name_ok),
                    password_error |-> password_field(pw, required),
                    subdomain_error |-> sub[1], subdomain |-> sub[2]]
            /\ UNCHANGED <<now, store, calls, RATE_LIMITING, subdomain_check, login, reset, homepage>>

-----------------------------------------------------------------------------
(* HomepageForm.clean_email and email_is_not_mit_mailing_list *)

\* s contains sub as a contiguous run (Python's "sub in s")
Contains(s, sub) ==
    \E i \in 1..(Len(s) - Len(sub) + 1) : SubSeq(s, i, i + Len(sub) - 1) = sub

\* s.rsplit(sep, 1)[0]: what precedes the last sep, or all of s without one
RSplitHead(s, sep) ==
    IF \E i \in 1..Len(s) : s[i] = sep
    THEN LET last == CHOOSE i \in 1..Len(s) :
                         /\ s[i] = sep
                         /\ \A j \in (i + 1)..Len(s) : s[j] # sep
         IN SubSeq(s, 1, last - 1)
    ELSE s

\* the addresses submitted, as sequences of pieces: "@" is the separator
HomepageEmails ==
    { <<"u", "@", "mit.edu">>,
      <<"l", "@", "mit.edu">>,
      <<"u", "@", "x.org">>,
      <<"u", "+", "t", "@", "x.org">>,
      <<"u", "@", "mit.edu", ".evil.com">> }

\* answers of DNS.dnslookup: a record, NXDOMAIN, or another server error
DnsAnswers == {"ok", "NXDOMAIN", "SERVFAIL"}

\* answers of email_allowed_for_realm: no exception, or one of its three
AllowedAnswers ==
    {"ok", "DomainNotAllowedForRealmError", "DisposableEmailError", "EmailContainsPlusError"}

\* the realm handed to the form: None, or its invite and mirror flags
HomepageRealms ==
    {None} \cup
    { Some([string_id |-> "acme", invite_required |-> i, is_zephyr_mirror_realm |-> z]) :
        i \in BOOLEAN, z \in BOOLEAN }

\* error: what is raised ("ok" when nothing is); lookups: the names looked up
email_is_not_mit_mailing_list(email, dns) ==
    IF Contains(email, <<"@", "mit.edu">>)
    THEN LET username == RSplitHead(email, "@")
             name == username \o <<".pobox.ns.athena.mit.edu">>
         IN  [error |-> CASE dns = "ok" -> "ok"
                          [] dns = "NXDOMAIN" -> "MIT_VALIDATION_ERROR"
                          [] OTHER -> "AssertionError",
              lookups |-> <<name>>]
    ELSE [error |-> "ok", lookups |-> <<>>]

\* as clean_email, but with every oracle asked before any answer is used
clean_email_all_oracles(email, realm, from_multiuse_invite, BILLING_ENABLED, allowed, dns, licenses) ==
    LET mit == email_is_not_mit_mailing_list(email, dns)
        asked == <<"email_allowed_for_realm">>
                 \o (IF mit.lookups # <<>> THEN <<"dnslookup">> ELSE <<>>)
                 \o <<"check_spare_licenses_available_for_registering_new_user">>
    IN  IF realm = None
        THEN [error |-> "realm does not exist", email |-> None, consulted |-> <<>>,
              lookups |-> <<>>]
        ELSE IF BILLING_ENABLED /\ ~licenses
        THEN [error |-> "all licenses in use", email |-> None, consulted |-> asked,
              lookups |-> mit.lookups]
        ELSE IF allowed # "ok"
        THEN [error |-> allowed, email |-> None, consulted |-> asked,
              lookups |-> mit.lookups]
        ELSE IF ~from_multiuse_invite /\ realm[1].invite_required
        THEN [error |-> "request an invite", email |-> None, consulted |-> asked,
              lookups |-> mit.lookups]
        ELSE IF mit.error # "ok"
        THEN [error |-> mit.error, email |-> None, consulted |-> asked,
              lookups |-> mit.lookups]
        ELSE [error |-> "ok", email |-> Some(email), consulted |-> asked,
              lookups |-> mit.lookups]

\* error: the ValidationError or fault raised ("ok" when the email is returned);
\* consulted: the external functions called, in order; lookups: the DNS names
clean_email(email, realm, from_multiuse_invite, BILLING_ENABLED, allowed, dns, licenses) ==
    IF realm = None
    THEN [error |-> "realm does not exist", email |-> None, consulted |-> <<>>,
          lookups |-> <<>>]
    ELSE IF ~from_multiuse_invite /\ realm[1].invite_required
    THEN [error |-> "request an invite", email |-> None, consulted |-> <<>>,
          lookups |-> <<>>]
    ELSE IF allowed # "ok"
    THEN [error |-> allowed, email |-> None,
          consulted |-> <<"email_allowed_for_realm">>, lookups |-> <<>>]
    ELSE LET mit == IF realm[1].is_zephyr_mirror_realm
                    THEN email_is_not_mit_mailing_list(email, dns)
                    ELSE [error |-> "ok", lookups |-> <<>>]
             after_mit == <<"email_allowed_for_realm">>
                          \o (IF mit.lookups # <<>> THEN <<"dnslookup">> ELSE <<>>)
         IN  IF mit.error # "ok"
             THEN [error |-> mit.error, email |-> None, consulted |-> after_mit,
                   lookups |-> mit.lookups]
             ELSE IF BILLING_ENABLED
             THEN LET after_licenses ==
                          after_mit
                          \o <<"check_spare_licenses_available_for_registering_new_user">>
                  IN  IF ~licenses
                      THEN [error |-> "all licenses in use", email |-> None,
                            consulted |-> after_licenses, lookups |-> mit.lookups]
                      ELSE [error |-> "ok", email |-> Some(email),
                            consulted |-> after_licenses, lookups |-> mit.lookups]
             ELSE [error |-> "ok", email |-> Some(email), consulted |-> after_mit,
                   lookups |-> mit.lookups]

\* one validation of the email field of a HomepageForm
CleanEmail ==
    /\ ~homepage.called
    /\ \E email \in HomepageEmails, realm \in HomepageRealms,
          from_multiuse_invite \in BOOLEAN, BILLING_ENABLED \in BOOLEAN,
          allowed \in AllowedAnswers, dns \in DnsAnswers, licenses \in BOOLEAN :
          \E r \in {clean_email(email, realm, from_multiuse_invite, BILLING_ENABLED,
                                allowed, dns, licenses)} :
              homepage' = [called |-> TRUE, email |-> email, realm |-> realm,
                           from_multiuse_invite |-> from_multiuse_invite,
                           BILLING_ENABLED |-> BILLING_ENABLED,
                           allowed |-> allowed, dns |-> dns, licenses |-> licenses,
                           result |-> r]
    /\ UNCHANGED <<now, store, calls, RATE_LIMITING, subdomain_check, registration, login, reset>>

-----------------------------------------------------------------------------
(* The realm and user tables, read through the repository interface *)

\* Realm rows: acme and other are active, gone has been deactivated
Realms ==
    { [string_id |-> "acme",  deactivated |-> FALSE],
      [string_id |-> "other", deactivated |-> FALSE],
      [string_id |-> "gone",  deactivated |-> TRUE] }

get_realm(subdomain) == CHOOSE r \in Realms : r.string_id = subdomain

\* the stored hash of a password, and its verification
make_password(password) == <<"hash", password>>

check_password(hash, password) == hash = make_password(password)

\* UserProfile rows. password = None: no usable password is stored.
UserProfiles ==
    { [id |-> 1, delivery_email |-> <<"B", "o">>, realm |-> "acme", is_active |-> TRUE,
       is_mirror_dummy |-> FALSE, password |-> Some(make_password("P@ssw0rd1"))],
      [id |-> 2, delivery_email |-> <<"n", "h">>, realm |-> "acme", is_active |-> TRUE,
       is_mirror_dummy |-> FALSE, password |-> None],
      [id |-> 3, delivery_email |-> <<"e", "v">>, realm |-> "acme", is_active |-> FALSE,
       is_mirror_dummy |-> FALSE, password |-> Some(make_password("P@ssw0rd1"))],
      [id |-> 4, delivery_email |-> <<"e", "n">>, realm |-> "acme", is_active |-> FALSE,
       is_mirror_dummy |-> FALSE, password |-> None],
      [id |-> 5, delivery_email |-> <<"m", "d">>, realm |-> "acme", is_active |-> FALSE,
       is_mirror_dummy |-> TRUE, password |-> None],
      [id |-> 6, delivery_email |-> <<"m", "p">>, realm |-> "acme", is_active |-> FALSE,
       is_mirror_dummy |-> TRUE, password |-> Some(make_password("P@ssw0rd1"))],
      [id |-> 7, delivery_email |-> <<"a", "l">>, realm |-> "other", is_active |-> TRUE,
       is_mirror_dummy |-> FALSE, password |-> Some(make_password("P@ssw0rd1"))],
      [id |-> 8, delivery_email |-> <<"b", "o">>, realm |-> "other", is_active |-> TRUE,
       is_mirror_dummy |-> FALSE, password |-> Some(make_password("Xk9#mQ2v"))],
      [id |-> 9, delivery_email |-> <<"g", "n">>, realm |-> "gone", is_active |-> TRUE,
       is_mirror_dummy |-> FALSE, password |-> Some(make_password("P@ssw0rd1"))],
      [id |-> 10, delivery_email |-> <<"g", "i">>, realm |-> "gone", is_active |-> FALSE,
       is_mirror_dummy |-> FALSE, password |-> Some(make_password("P@ssw0rd1"))] }

\* get_user_by_delivery_email(email, realm): the row of that realm whose
\* address matches case-insensitively, None for UserProfile.DoesNotExist
get_user_by_delivery_email(email, realm) ==
    LET found == {u \in UserProfiles :
                      u.realm = realm.string_id /\ IExact(u.delivery_email, email)}
    IN  IF found = {} THEN None ELSE Some(CHOOSE u \in found : TRUE)

-----------------------------------------------------------------------------
(* RateLimitedObject.rate_limit *)

Max(S) == CHOOSE x \in S : \A y \in S : y <= x

\* the timestamps recorded for a key
Events(st, key) == IF key \in DOMAIN st THEN st[key] ELSE <<>>

\* the timestamps of ts that lie in the window of `secs` ticks ending at t
InWindow(ts, t, secs) == SelectSeq(ts, LAMBDA x : t - x < secs)

\* One consultation at time t: the attempt is recorded whatever the verdict,
\* the key is limited if any rule's count in its window exceeds the rule's
\* maximum, and secs is the longest wait among the violated rules.
rate_limit(st, key, rules, t) ==
    LET recorded == Append(Events(st, key), t)
        longest == Max({rules[i].secs : i \in DOMAIN rules})
        violated == {i \in DOMAIN rules :
                         Len(InWindow(recorded, t, rules[i].secs)) > rules[i].max}
        wait(i) == LET w == InWindow(recorded, t, rules[i].secs)
                   IN  w[Len(w) - rules[i].max] + rules[i].secs - t
    IN  [ratelimited |-> violated # {},
         secs_to_freedom |-> IF violated = {} THEN None
                             ELSE Some(Max({wait(i) : i \in violated})),
         store |-> (key :> InWindow(recorded, t, longest)) @@ st]

\* the clock advances
Tick ==
    /\ now < MaxTime
    /\ now' = now + 1
    /\ UNCHANGED <<store, calls, RATE_LIMITING, subdomain_check, registration, login, reset, homepage>>

-----------------------------------------------------------------------------
(* authenticate(): the rate limiter, then the credential authenticator *)

AUTHENTICATION_RULES == <<[max |-> RuleMax, secs |-> RuleWindow]>>

AuthKey(username, realm) == <<"authenticate", username, realm.string_id>>

\* identities of other realms whose credentials the submission matches
matches_elsewhere(username, password, realm) ==
    {u \in UserProfiles : /\ u.realm # realm.string_id
                          /\ IExact(u.delivery_email, username)
                          /\ u.password # None
                          /\ check_password(u.password[1], password)}

\* The credential authenticator: the value holds the identity returned
\* (user_cache), the signals set in return_data, whether a password was
\* compared, and the identity the verdict is about.
credential_authenticate(username, password, realm) ==
    LET found == get_user_by_delivery_email(username, realm)
        user == found[1]
        result(u, rd, compared, about) ==
            [raised |-> FALSE, secs_to_freedom |-> None, user_cache |-> u,
             return_data |-> rd, compared |-> compared, identities |-> about]
    IN  IF found = None
        THEN LET elsewhere == matches_elsewhere(username, password, realm)
                 candidates == {u \in UserProfiles : /\ u.realm # realm.string_id
                                                     /\ IExact(u.delivery_email, username)
                                                     /\ u.password # None}
             IN  IF elsewhere # {}
                 THEN result(None, {"invalid_subdomain"}, TRUE, elsewhere)
                 ELSE result(None, {}, candidates # {}, {})
        ELSE IF ~user.is_active
        THEN result(None,
                    {"inactive_user"} \cup
                        (IF user.is_mirror_dummy THEN {"is_mirror_dummy"} ELSE {}),
                    FALSE, {user})
        ELSE IF realm.deactivated
        THEN result(None, {"inactive_realm"}, FALSE, {user})
        ELSE IF user.password = None
        THEN result(None, {"password_reset_needed"}, FALSE, {user})
        ELSE IF check_password(user.password[1], password)
        THEN result(Some(user), {}, TRUE, {user})
        ELSE result(None, {}, TRUE, {user})

\* authenticate(request, username, password, realm, return_data) at time t on
\* the store st; raised = TRUE stands for the RateLimited exception
authenticate(username, password, realm, st, t) ==
    LET rl == rate_limit(st, AuthKey(username, realm), AUTHENTICATION_RULES, t)
    IN  IF rl.ratelimited
        THEN [raised |-> TRUE, secs_to_freedom |-> rl.secs_to_freedom, user_cache |-> None,
              return_data |-> {}, compared |-> FALSE, identities |-> {},
              ratelimited |-> TRUE, store |-> rl.store]
        ELSE credential_authenticate(username, password, realm) @@
             [ratelimited |-> FALSE, store |-> rl.store]

-----------------------------------------------------------------------------
(* OurAuthenticationForm.clean *)

Decision(outcome, secs, log) == [outcome |-> outcome, secs |-> secs, log |-> log]

\* int(e.secs_to_freedom): the float number of seconds, truncated
IntSecs(ticks) == ticks \div TicksPerSecond

\* a plausible slip: the RateLimited exception is swallowed and the form
\* falls through to the invalid-login error
rate_limited_error_swallowed(secs_to_freedom) ==
    Decision("invalid_login", None, {})

\* the handler of RateLimited
rate_limited_error(secs_to_freedom) ==
    IF secs_to_freedom = None
    THEN Decision("AssertionError", None, {})
    ELSE Decision("AUTHENTICATION_RATE_LIMITED_ERROR", Some(IntSecs(secs_to_freedom[1])), {})

\* a plausible slip: the mirror-dummy exclusion is dropped
inactive_user_error_any(return_data) == "inactive_user" \in return_data

\* the condition of DEACTIVATED_ACCOUNT_ERROR
inactive_user_error(return_data) ==
    "inactive_user" \in return_data /\ "is_mirror_dummy" \notin return_data

\* a plausible slip: the entry is written at info level
wrong_subdomain_log_info(username, subdomain) ==
    {[level |-> "info",
      msg |-> "User %s attempted password login to wrong subdomain %s",
      username |-> username, subdomain |-> subdomain]}

\* the entries logging.warning writes for a login to the wrong subdomain
wrong_subdomain_log(username, subdomain) ==
    {[level |-> "warning",
      msg |-> "User %s attempted password login to wrong subdomain %s",
      username |-> username, subdomain |-> subdomain]}

\* AuthenticationForm.confirm_login_allowed
confirm_login_allowed(user) ==
    IF user.is_active THEN Decision("ok", None, {}) ELSE Decision("inactive", None, {})

\* a plausible slip: the inactive-realm assertion moved below the other checks
clean_inactive_realm_last(username, subdomain, auth) ==
    IF auth.raised THEN rate_limited_error(auth.secs_to_freedom)
    ELSE IF "password_reset_needed" \in auth.return_data
    THEN Decision("PASSWORD_RESET_NEEDED_ERROR", None, {})
    ELSE IF inactive_user_error(auth.return_data)
    THEN Decision("DEACTIVATED_ACCOUNT_ERROR", None, {})
    ELSE IF "invalid_subdomain" \in auth.return_data
    THEN Decision("WRONG_SUBDOMAIN_ERROR", None, wrong_subdomain_log(username, subdomain))
    ELSE IF auth.user_cache = None
    THEN Decision("invalid_login", None, {})
    ELSE IF "inactive_realm" \in auth.return_data
    THEN Decision("AssertionError", None, {})
    ELSE confirm_login_allowed(auth.user_cache[1])

\* The body of clean once authenticate has answered with auth. The outcome is
\* the error raised, or "ok" when cleaned_data is returned.
clean(username, subdomain, auth) ==
    IF auth.raised THEN rate_limited_error(auth.secs_to_freedom)
    ELSE IF "inactive_realm" \in auth.return_data
    THEN Decision("AssertionError", None, {})
    ELSE IF "password_reset_needed" \in auth.return_data
    THEN Decision("PASSWORD_RESET_NEEDED_ERROR", None, {})
    ELSE IF inactive_user_error(auth.return_data)
    THEN Decision("DEACTIVATED_ACCOUNT_ERROR", None, {})
    ELSE IF "invalid_subdomain" \in auth.return_data
    THEN Decision("WRONG_SUBDOMAIN_ERROR", None, wrong_subdomain_log(username, subdomain))
    ELSE IF auth.user_cache = None
    THEN Decision("invalid_login", None, {})
    ELSE confirm_login_allowed(auth.user_cache[1])

\* the usernames and passwords submitted to the login form
Usernames ==
    { <<"b", "o">>, <<"B", "O">>, <<"n", "h">>, <<"e", "v">>, <<"E", "v">>, <<"e", "n">>,
      <<"m", "d">>, <<"m", "p">>, <<"a", "l">>, <<"g", "n">>, <<"g", "i">>, <<"z", "z">> }

LoginPasswords == {"", "pw", "P@ssw0rd1", "Xk9#mQ2v"}

Subdomain == {r.string_id : r \in Realms}

\* One submission of the login form. authenticate is called only when the
\* username is present and the password is not empty. The model follows the
\* submissions of one client, a username at a realm: the store is keyed, and
\* attempts under other keys do not touch that client's history.
Login ==
    /\ Len(calls) < MaxCalls
    /\ \E username \in {Some(u) : u \in Usernames} \cup {None}, subdomain \in Subdomain :
        /\ \A i \in 1..Len(calls) : calls[i].client = <<username, subdomain>>
        /\ \E password \in LoginPasswords :
            IF username # None /\ password # ""
            THEN \E auth \in {authenticate(username[1], password, get_realm(subdomain),
                                            store, now)} :
                 \E d \in {clean(username[1], subdomain, auth)} :
                     /\ login' = [called |-> TRUE, attempted |-> TRUE,
                                  username |-> username, password |-> password,
                                  subdomain |-> subdomain, auth |-> auth,
                                  outcome |-> d.outcome, secs |-> d.secs, log |-> d.log]
                     /\ store' = auth.store
                     /\ calls' = Append(calls, [client |-> <<username, subdomain>>,
                                                time |-> now,
                                                ratelimited |-> auth.ratelimited])
            ELSE /\ login' = [called |-> TRUE, attempted |-> FALSE,
                              username |-> username, password |-> password,
                              subdomain |-> subdomain,
                              outcome |-> "ok", secs |-> None, log |-> {}]
                 /\ UNCHANGED <<store, calls>>
    /\ UNCHANGED <<now, RATE_LIMITING, subdomain_check, registration, reset, homepage>>

\* the signals authenticate can set in return_data
ReturnDataKeys ==
    {"inactive_realm", "password_reset_needed", "inactive_user", "is_mirror_dummy",
     "invalid_subdomain"}

\* the answers authenticate can give, whatever its backends
AuthResults ==
    { [raised |-> TRUE, secs_to_freedom |-> s, user_cache |-> None, return_data |-> {}]
          : s \in {None} \cup {Some(t) : t \in 0..(2 * TicksPerSecond)} }
    \cup
    { [raised |-> FALSE, secs_to_freedom |-> None, user_cache |-> u, return_data |-> rd]
          : u \in {None} \cup {Some(p) : p \in {q \in UserProfiles : q.id \in {1, 3}}},
            rd \in SUBSET ReturnDataKeys }

\* clean on one form instance with authenticate answering in any way it can
LoginWithAuthResult ==
    /\ ~login.called
    /\ \E username \in {<<"b", "o">>, <<"e", "v">>}, subdomain \in Subdomain,
          auth \in AuthResults :
        LET d == clean(username, subdomain, auth)
        IN  login' = [called |-> TRUE, attempted |-> TRUE, username |-> Some(username),
                      password |-> "P@ssw0rd1", subdomain |-> subdomain, auth |-> auth,
                      outcome |-> d.outcome, secs |-> d.secs, log |-> d.log]
    /\ UNCHANGED <<now, store, calls, RATE_LIMITING, subdomain_check, registration, reset, homepage>>

-----------------------------------------------------------------------------
(* ZulipPasswordResetForm.save *)

\* settings.RATE_LIMITING_RULES["password_reset_form_by_email"]
rules == <<[max |-> RuleMax, secs |-> RuleWindow]>>

\* RateLimitedPasswordResetByEmail(email).key(): the class name and the email
\* as it was passed in
key(email) == <<"RateLimitedPasswordResetByEmail", email>>

\* a plausible slip: the limiter's verdict is dropped and RateLimited is never raised
rate_limit_password_reset_form_by_email_unraised(email, st, t) ==
    LET rl == rate_limit(st, key(email), rules, t)
    IN  [raised |-> FALSE, secs_to_freedom |-> rl.secs_to_freedom, store |-> rl.store]

\* rate_limit_password_reset_form_by_email; raised = TRUE stands for RateLimited
rate_limit_password_reset_form_by_email(email, st, t) ==
    LET rl == rate_limit(st, key(email), rules, t)
    IN  [raised |-> rl.ratelimited, secs_to_freedom |-> rl.secs_to_freedom, store |-> rl.store]

\* generate_password_reset_url: a token for the user, the encoded user id, and
\* the confirmation endpoint under the URI of the user's realm
generate_password_reset_url(user_profile) ==
    <<user_profile.realm, "password_reset_confirm", user_profile.id,
      <<"token", user_profile.id>>>>

\* a plausible slip: the deactivated account is not discarded
active_account_unfiltered(user) == user

\* `user = None` for an account that exists but is not active
active_account(user) ==
    IF user # None /\ ~user[1].is_active THEN None ELSE user

\* UserProfile.objects.filter(delivery_email__iexact=email, is_active=True)
active_accounts_in_other_realms(email) ==
    {u.id : u \in {p \in UserProfiles : IExact(p.delivery_email, email) /\ p.is_active}}

\* the one send_email call of save: the reset link to the account's user id,
\* or the no-account variant to the address submitted
password_reset_email(email, realm, found, language) ==
    LET user == active_account(found)
        context(active, url, others) ==
            [email |-> email, realm_uri |-> realm.string_id, realm_name |-> realm.string_id,
             user_deactivated |-> found # None /\ ~found[1].is_active,
             active_account_in_realm |-> active, reset_url |-> url,
             active_accounts_in_other_realms |-> others]
    IN  IF user # None
        THEN [template |-> "zerver/emails/password_reset",
              to_user_ids |-> {user[1].id}, to_emails |-> {}, language |-> None,
              context |-> context(TRUE, Some(generate_password_reset_url(user[1])), {})]
        ELSE [template |-> "zerver/emails/password_reset",
              to_user_ids |-> {}, to_emails |-> {email}, language |-> Some(language),
              context |-> context(FALSE, None, active_accounts_in_other_realms(email))]

\* the addresses a sent email goes to: the on-file address of each user id,
\* and each address given directly
Recipients(m) ==
    {u.delivery_email : u \in {p \in UserProfiles : p.id \in m.to_user_ids}} \cup m.to_emails

Effects(exit, log, emails, consulted, rl, st) ==
    [exit |-> exit, log |-> log, emails |-> emails, consulted |-> consulted,
     ratelimited |-> consulted /\ rl.raised,
     secs_to_freedom |-> IF consulted THEN rl.secs_to_freedom ELSE None,
     store |-> st]

NoVerdict == [raised |-> FALSE, secs_to_freedom |-> None]

\* a plausible slip: the rate limiter is consulted before the three gates
save_limiter_first(email, realm, email_auth, ldap, rate_limiting, language, st, t) ==
    LET rl == rate_limit_password_reset_form_by_email(email, st, t)
        after == IF rate_limiting THEN rl.store ELSE st
        found == get_user_by_delivery_email(email, realm)
    IN  IF rate_limiting /\ rl.raised
        THEN Effects("ratelimited", {}, {}, TRUE, rl, rl.store)
        ELSE IF ~email_auth
        THEN Effects("auth_disabled", {}, {}, rate_limiting, rl, after)
        ELSE IF ldap
        THEN Effects("ldap", {}, {}, rate_limiting, rl, after)
        ELSE IF realm.deactivated
        THEN Effects("deactivated", {}, {}, rate_limiting, rl, after)
        ELSE Effects("sent", {}, {password_reset_email(email, realm, found, language)},
                     rate_limiting, rl, after)

\* save(request): email_auth, ldap and rate_limiting are the answers of
\* email_auth_enabled(realm), email_belongs_to_ldap(realm, email) and
\* settings.RATE_LIMITING; st is the rate-limit store and t the time of the call
save(email, realm, email_auth, ldap, rate_limiting, language, st, t) ==
    LET rl == rate_limit_password_reset_form_by_email(email, st, t)
        found == get_user_by_delivery_email(email, realm)
        info(msg, args) == {[level |-> "info", msg |-> msg, args |-> args]}
    IN  IF ~email_auth
        THEN Effects("auth_disabled",
                     info("Password reset attempted for %s even though password auth is disabled.",
                          <<email>>),
                     {}, FALSE, NoVerdict, st)
        ELSE IF ldap
        THEN Effects("ldap", info("Password reset not allowed for user in LDAP domain", <<>>),
                     {}, FALSE, NoVerdict, st)
        ELSE IF realm.deactivated
        THEN Effects("deactivated", info("Realm is deactivated", <<>>), {}, FALSE, NoVerdict, st)
        ELSE IF rate_limiting /\ rl.raised
        THEN Effects("ratelimited",
                     info("Too many password reset attempts for email %s", <<email>>),
                     {}, TRUE, rl, rl.store)
        ELSE Effects("sent", {}, {password_reset_email(email, realm, found, language)},
                     rate_limiting, rl, IF rate_limiting THEN rl.store ELSE st)

\* the addresses submitted to the password-reset form
ResetEmails == { <<"b", "o">>, <<"B", "o">>, <<"e", "v">>, <<"z", "z">> }

\* One submission of the password-reset form
ResetPassword ==
    /\ Len(calls) < MaxCalls
    /\ \E email \in ResetEmails, subdomain \in {"acme", "gone"}, email_auth \in BOOLEAN,
          ldap \in BOOLEAN :
        \E realm \in {get_realm(subdomain)} :
        \E e \in {save(email, realm, email_auth, ldap, RATE_LIMITING, "en", store, now)} :
            /\ reset' = [called |-> TRUE, email |-> email, subdomain |-> subdomain,
                         email_auth |-> email_auth, ldap |-> ldap,
                         time |-> now,
                         found |-> get_user_by_delivery_email(email, realm),
                         exit |-> e.exit, log |-> e.log, emails |-> e.emails,
                         consulted |-> e.consulted, ratelimited |-> e.ratelimited,
                         secs_to_freedom |-> e.secs_to_freedom]
            /\ store' = e.store
            /\ calls' = IF ~e.consulted THEN calls
                        ELSE Append(calls, [email |-> email, time |-> now,
                                            ratelimited |-> e.ratelimited])
    /\ UNCHANGED <<now, RATE_LIMITING, subdomain_check, registration, login, homepage>>

-----------------------------------------------------------------------------

Init ==
    /\ now = 0
    /\ store = <<>>
    /\ calls = <<>>
    /\ RATE_LIMITING \in BOOLEAN
    /\ subdomain_check = NoSubdomainCheck
    /\ registration = NoRegistration
    /\ login = [called |-> FALSE]
    /\ reset = [called |-> FALSE]
    /\ homepage = [called |-> FALSE]

NextForms == CheckSubdomain \/ Register

SpecForms == Init /\ [][NextForms]_vars

NextLogin == Login \/ Tick

SpecLogin == Init /\ [][NextLogin]_vars

NextLoginForm == LoginWithAuthResult

NextReset == ResetPassword \/ Tick

SpecReset == Init /\ [][NextReset]_vars

NextHomepage == CleanEmail

SpecHomepage == Init /\ [][NextHomepage]_vars

Next ==
    CheckSubdomain \/ Register \/ CleanEmail \/ Login \/ LoginWithAuthResult
    \/ ResetPassword \/ Tick

Spec == Init /\ [][Next]_vars

SpecLoginForm == Init /\ [][NextLoginForm]_vars

-----------------------------------------------------------------------------
(* Properties of check_subdomain_available and RegistrationForm, under SpecForms *)

ShortSubdomainChecked ==
    /\ subdomain_check.called
    /\ subdomain_check.subdomain # SUBDOMAIN_FOR_ROOT_DOMAIN
    /\ Len(subdomain_check.subdomain) < 3

ExtremalDash(s) == s[1] = "-" \/ s[Len(s)] = "-"

PasswordPresent == registration.called /\ registration.password # ""

\* C8 as stated: a password present in the submission must pass the strength
\* oracle or validation fails with the weak-password message, whether or not
\* the password field is required.
C8_PresentPasswordIsChecked ==
    PasswordPresent =>
        registration.password_error =
            IF check_password_strength(registration.password) THEN "ok"
            ELSE "PASSWORD_TOO_WEAK_ERROR"

\* C8 as the code has it: when the password field is required, a password
\* present in the submission must pass the strength oracle or validation fails
\* with the weak-password message; when the field is not required, the
\* password is accepted without the strength check.
C8_RequiredPasswordIsChecked ==
    PasswordPresent =>
        registration.password_error =
            IF registration.password_required
               /\ ~check_password_strength(registration.password)
            THEN "PASSWORD_TOO_WEAK_ERROR"
            ELSE "ok"

\* a weak password on a form that requires one, refused with the weak-password message
C8_Witness ==
    /\ PasswordPresent
    /\ registration.password_required
    /\ ~check_password_strength(registration.password)
    /\ registration.password_error = "PASSWORD_TOO_WEAK_ERROR"

-----------------------------------------------------------------------------
(* Properties of the login decision *)

LoginAttempt == login.called /\ login.attempted

\* C1 (SpecLogin): when the rate limiter reports the key limited, the outcome
\* is the rate-limited error carrying the retry-after seconds, and no password
\* was compared for that attempt.
C1_RateLimitedBeforeCredentials ==
    (LoginAttempt /\ login.auth.ratelimited) =>
        /\ login.outcome = "AUTHENTICATION_RATE_LIMITED_ERROR"
        /\ login.secs = Some(IntSecs(login.auth.secs_to_freedom[1]))
        /\ ~login.auth.compared

\* a limited attempt with the right password of an active account
C1_Witness ==
    /\ LoginAttempt
    /\ login.auth.ratelimited
    /\ login.username = Some(<<"b", "o">>)
    /\ login.subdomain = "acme"
    /\ login.password = "P@ssw0rd1"
    /\ login.outcome = "AUTHENTICATION_RATE_LIMITED_ERROR"

\* the subdomains a log entry of clean names
SubdomainsNamed(entry) == {entry.subdomain}

WrongRealm == LoginAttempt /\ login.outcome = "WRONG_SUBDOMAIN_ERROR"

\* C5 as stated (SpecLogin): a login that ends in the wrong-subdomain error
\* writes a warning entry that holds the username, the requested subdomain
\* and the subdomain of the realm the identity belongs to.
C5_WarningNamesBothSubdomains ==
    WrongRealm =>
        \E entry \in login.log :
            /\ entry.level = "warning"
            /\ entry.username = login.username[1]
            /\ login.subdomain \in SubdomainsNamed(entry)
            /\ \E u \in login.auth.identities : u.realm \in SubdomainsNamed(entry)

\* C5 as the code has it (SpecLogin): a login that ends in the wrong-subdomain
\* error writes a warning entry that holds the username and the requested
\* subdomain.
C5_WarningNamesRequestedSubdomain ==
    WrongRealm =>
        \E entry \in login.log :
            /\ entry.level = "warning"
            /\ entry.username = login.username[1]
            /\ login.subdomain \in SubdomainsNamed(entry)

\* credentials of an account of realm other, submitted at realm acme
C5_Witness ==
    /\ WrongRealm
    /\ login.username = Some(<<"a", "l">>)
    /\ login.subdomain = "acme"
    /\ \E u \in login.auth.identities : u.realm = "other"
    /\ login.log # {}

\* C6 (SpecLoginForm): when authenticate signals inactive_realm and the
\* attempt is not rate-limited, clean raises the AssertionError, whatever other
\* signals are set and whether or not a user was returned.
C6_InactiveRealmIsFatal ==
    (LoginAttempt /\ ~login.auth.raised /\ "inactive_realm" \in login.auth.return_data) =>
        login.outcome = "AssertionError"

\* inactive_realm together with every other signal and a returned user
C6_Witness ==
    /\ LoginAttempt
    /\ ~login.auth.raised
    /\ login.auth.return_data = ReturnDataKeys
    /\ login.auth.user_cache # None
    /\ login.outcome = "AssertionError"

\* the identity of the requested realm that the attempt is against
AttemptedIdentity == get_user_by_delivery_email(login.username[1], get_realm(login.subdomain))

AgainstInactive == LoginAttempt /\ AttemptedIdentity # None /\ ~AttemptedIdentity[1].is_active

\* no account of any realm has the submitted address
NoAccountAnywhere ==
    LoginAttempt /\ \A u \in UserProfiles : ~IExact(u.delivery_email, login.username[1])

\* C7 as stated (SpecLogin): an attempt against an inactive identity ends in
\* the deactivated-account error if the identity is not a mirror dummy, and in
\* the invalid-login error if it is.
C7_InactiveIdentityOutcome ==
    AgainstInactive =>
        login.outcome = IF AttemptedIdentity[1].is_mirror_dummy THEN "invalid_login"
                        ELSE "DEACTIVATED_ACCOUNT_ERROR"

\* C7 as the code has it (SpecLogin): an attempt that is not rate-limited and
\* is against an inactive identity ends in the deactivated-account error if
\* the identity is not a mirror dummy, and in the invalid-login error if it
\* is, which is also the outcome for an address with no account at all.
C7_InactiveIdentityOutcomeUnlessLimited ==
    /\ (AgainstInactive /\ ~login.auth.ratelimited) =>
           login.outcome = IF AttemptedIdentity[1].is_mirror_dummy THEN "invalid_login"
                           ELSE "DEACTIVATED_ACCOUNT_ERROR"
    /\ (NoAccountAnywhere /\ ~login.auth.ratelimited) => login.outcome = "invalid_login"

\* an attempt against a mirror dummy that ends in the invalid-login error
C7_Witness ==
    /\ AgainstInactive
    /\ ~login.auth.ratelimited
    /\ AttemptedIdentity[1].is_mirror_dummy
    /\ login.outcome = "invalid_login"

-----------------------------------------------------------------------------
(* Properties of the password-reset dispatch, under SpecReset *)

GateExits == {"auth_disabled", "ldap", "deactivated"}

PassesGates ==
    /\ reset.called
    /\ reset.email_auth
    /\ ~reset.ldap
    /\ ~get_realm(reset.subdomain).deactivated

NoActiveAccount == reset.found = None \/ ~reset.found[1].is_active

\* C2: a dispatch that passes all gates, for an address with no account in
\* the realm or with a deactivated one, sends exactly one email, to the
\* address submitted, none to an account's user id, and with no reset URL.
C2_NoAccountAndDeactivatedAlike ==
    (reset.called /\ reset.exit = "sent" /\ NoActiveAccount) =>
        /\ Cardinality(reset.emails) = 1
        /\ \A m \in reset.emails :
               /\ Recipients(m) = {reset.email}
               /\ m.to_user_ids = {}
               /\ m.context.reset_url = None

\* a dispatch for the address of a deactivated account
C2_Witness ==
    /\ reset.called
    /\ reset.exit = "sent"
    /\ reset.found # None
    /\ ~reset.found[1].is_active
    /\ \E m \in reset.emails : m.to_emails = {reset.email}

\* the earlier consultations for the address of the last dispatch that lie in
\* the window ending at that dispatch
PriorInWindow ==
    {i \in 1..(Len(calls) - 1) :
         calls[i].email = reset.email /\ reset.time - calls[i].time < RuleWindow}

\* C3: with rate limiting enabled and a rule of RuleMax attempts per window, a
\* dispatch that passes the gates sends one email if fewer than RuleMax
\* dispatches for the same email precede it in the window, and otherwise is
\* reported limited with a positive retry-after and sends nothing.
C3_LimitedAfterRuleMax ==
    (RATE_LIMITING /\ PassesGates) =>
        IF Cardinality(PriorInWindow) < RuleMax
        THEN /\ reset.exit = "sent"
             /\ Cardinality(reset.emails) = 1
        ELSE /\ reset.exit = "ratelimited"
             /\ reset.ratelimited
             /\ reset.secs_to_freedom # None
             /\ reset.secs_to_freedom[1] > 0
             /\ reset.emails = {}

\* the dispatch that follows RuleMax dispatches for the same email, all sent
C3_Witness ==
    /\ RATE_LIMITING
    /\ PassesGates
    /\ Len(calls) = RuleMax + 1
    /\ \A i \in 1..RuleMax : calls[i].email = reset.email /\ ~calls[i].ratelimited
    /\ Cardinality(PriorInWindow) = RuleMax
    /\ reset.exit = "ratelimited"

\* C9: a dispatch that exits at one of the first three gates sends no email,
\* and leaves the rate-limit store as it was: no attempt is recorded.
C9_GateExitLeavesLimiterAlone ==
    [][(reset'.called /\ reset' # reset /\ reset'.exit \in GateExits) =>
           /\ reset'.emails = {}
           /\ store' = store
           /\ calls' = calls]_vars

\* a gate exit for an address whose counter holds attempts
C9_Witness ==
    /\ reset.called
    /\ reset.exit \in GateExits
    /\ Events(store, key(reset.email)) # <<>>

\* the dispatches up to the i-th that went past the limiter for the same
\* address, whatever its letter case, within one window
SentForAddress(i) ==
    {j \in 1..i : /\ Lower(calls[j].email) = Lower(calls[i].email)
                  /\ ~calls[j].ratelimited
                  /\ calls[i].time - calls[j].time < RuleWindow}

\* C10: spellings of one address that differ only in letter case count
\* against the same counter, so the dispatches that go past the limiter for
\* one address within a window are never more than the rule allows.
C10_CaseVariantsShareCounter ==
    \A i \in 1..Len(calls) :
        ~calls[i].ratelimited => Cardinality(SentForAddress(i)) <= RuleMax

-----------------------------------------------------------------------------
(* Properties of the eligibility check, under SpecHomepage *)

\* the external functions clean_email has called
Consulted == { homepage.result.consulted[i] : i \in 1..Len(homepage.result.consulted) }

\* the checks of clean_email, each as the condition under which it fails
RealmMissing == homepage.realm = None

InviteCheckFails ==
    /\ homepage.realm # None
    /\ ~homepage.from_multiuse_invite
    /\ homepage.realm[1].invite_required

EmailOracleFails == homepage.allowed # "ok"

MailingListRealm ==
    /\ homepage.realm # None
    /\ homepage.realm[1].is_zephyr_mirror_realm

MailingListCheckFails ==
    /\ MailingListRealm
    /\ Contains(homepage.email, <<"@", "mit.edu">>)
    /\ homepage.dns # "ok"

LicenseCheckFails == homepage.BILLING_ENABLED /\ ~homepage.licenses

=============================================================================
